---- MODULE Spec2Model ----
(***************************************************************************)
(* The lexgen-based Lua lexer of src/src/lua/lexer_lexgen.rs as a state    *)
(* machine.                                                                *)
(*                                                                         *)
(* The lexer is the DFA that the lexer! macro generates from the rule sets *)
(* Init, LongStringBracketLeft, LongString, LongStringBracketRight,        *)
(* String, UnicodeCodepoint, EnterComment and Comment.  One action of this *)
(* module is one rule match: the scanner runs the current rule set on the  *)
(* remaining input, takes the longest match (the earliest rule on a tie),  *)
(* and runs that rule's semantic action.  A call of next() is a run of     *)
(* such steps up to the first one that returns a token, an error or the    *)
(* end of the input.                                                       *)
(*                                                                         *)
(* Conventions of the generated scanner that the rule file relies on:      *)
(*   - the current match (lexer.match_) starts where the scanner last      *)
(*     entered the initial state of rule set Init and grows across         *)
(*     continue_() and switch() to other rule sets (line 204 slices the    *)
(*     long-bracket opener off the match; lines 142-145 take the match as  *)
(*     the identifier);                                                    *)
(*   - a rule without a right-hand side skips its match and stays in the   *)
(*     rule set;                                                           *)
(*   - at the end of the input rule set Init ends the iteration (None) and *)
(*     every other rule set fails;                                         *)
(*   - a failure resets the scanner to rule set Init and leaves the        *)
(*     offending character unread.                                         *)
(*                                                                         *)
(* Characters are Unicode scalar values (Rust char), the string buffer and *)
(* token payloads are byte sequences (Vec<u8>).                            *)
(***************************************************************************)
EXTENDS Integers, Sequences, FiniteSets, TLC

VARIABLES
    input,      \* Lexer::new(&str): the source text, a sequence of chars
    pos,        \* number of chars the scanner has read
    match_start,\* where the current match (lexer.match_) starts
    rule,       \* the current rule set (LexerRule)
    long_string_opening_eqs,
    long_string_closing_eqs,
    short_string_delim,
    string_buf,
    in_comment,
    unicode_codepoint,
    tokens,     \* the tokens the calls of next() have returned so far
    last,       \* how the latest call of next() ended, "none" before any
    in_call,    \* a call of next() is between two steps
    eof_calls,  \* calls of next() that returned None
    err_calls,  \* calls of next() that returned Some(Err(_))
    last_error, \* the error of the latest call that returned Some(Err(_))
    profile,    \* the build profile, once an integer overflow reveals it
    entered_from\* which rule opened the current long bracket (history)

vars == << input, pos, match_start, rule, long_string_opening_eqs,
           long_string_closing_eqs, short_string_delim, string_buf,
           in_comment, unicode_codepoint, tokens, last, in_call,
           eof_calls, err_calls, last_error, profile, entered_from >>

----------------------------------------------------------------------------
(* Characters *)

\* The printable ASCII characters, U+0020 .. U+007E, in code order (U+0060,
\* which no rule names, is written out).
Printable ==
    << " ", "!", "\"", "#", "$", "%", "&", "'", "(", ")", "*", "+", ",", "-",
       ".", "/", "0", "1", "2", "3", "4", "5", "6", "7", "8", "9", ":", ";",
       "<", "=", ">", "?", "@", "A", "B", "C", "D", "E", "F", "G", "H", "I",
       "J", "K", "L", "M", "N", "O", "P", "Q", "R", "S", "T", "U", "V", "W",
       "X", "Y", "Z", "[", "\\", "]", "^", "_", "grave", "a", "b", "c", "d", "e",
       "f", "g", "h", "i", "j", "k", "l", "m", "n", "o", "p", "q", "r", "s",
       "t", "u", "v", "w", "x", "y", "z", "{", "|", "}", "~" >>

\* The scalar value of a character written as a one-character string.
Ord(c) ==
    IF c = "\t" THEN 9
    ELSE IF c = "\n" THEN 10
    ELSE IF c = "\r" THEN 13
    ELSE 31 + (CHOOSE i \in 1..Len(Printable) : Printable[i] = c)

\* A source text written as a sequence of one-character strings.
Str(s) == [i \in 1..Len(s) |-> Ord(s[i])]

Range(f) == {f[i] : i \in DOMAIN f}

\* The scalar values of the characters the rules name.
SPACE == 32
TAB == 9
NL == 10
CR == 13
DQUOTE == 34
SQUOTE == 39
BACKSLASH == 92
LBRACKET == 91
RBRACKET == 93
LBRACE == 123
RBRACE == 125
EQUALS == 61
DASH == 45
PLUS == 43
DOT == 46
UNDERSCORE == 95
CH_0 == 48
CH_9 == 57
CH_a == 97
CH_f == 102
CH_z == 122
CH_A == 65
CH_F == 70
CH_Z == 90
CH_e == 101
CH_E == 69
CH_p == 112
CH_P == 80
CH_x == 120
CH_X == 88
CH_u == 117

\* let digit = ['0'-'9'];
IsDigit(c) == c >= CH_0 /\ c <= CH_9

\* let var_init = ['a'-'z' 'A'-'Z' '_'];
IsVarInit(c) ==
    \/ (c >= CH_a /\ c <= CH_z)
    \/ (c >= CH_A /\ c <= CH_Z)
    \/ c = UNDERSCORE

\* let var_subseq = $var_init | ['0'-'9'];
IsVarSubseq(c) == IsVarInit(c) \/ (c >= CH_0 /\ c <= CH_9)

\* let hex_digit = ['a'-'f' 'A'-'F' '0'-'9'];
IsHexDigit(c) ==
    \/ (c >= CH_a /\ c <= CH_f)
    \/ (c >= CH_A /\ c <= CH_F)
    \/ (c >= CH_0 /\ c <= CH_9)

\* The character at offset p (0-based) of the input, -1 past its end.
At(p) == IF p >= 0 /\ p < Len(input) THEN input[p + 1] ELSE -1

\* lexer.peek(): the first character the scanner has not read, None as -1.
Peek(p) == At(p)

\* The lengths of the longest runs of digits, hex digits and identifier
\* characters from offset p on.
RECURSIVE Digits(_)
Digits(p) == IF IsDigit(At(p)) THEN 1 + Digits(p + 1) ELSE 0

RECURSIVE HexDigits(_)
HexDigits(p) == IF IsHexDigit(At(p)) THEN 1 + HexDigits(p + 1) ELSE 0

RECURSIVE VarSubseqs(_)
VarSubseqs(p) == IF IsVarSubseq(At(p)) THEN 1 + VarSubseqs(p + 1) ELSE 0

\* Whether the literal lit (a sequence of chars) is in the input at offset p.
LitAt(lit, p) ==
    /\ p + Len(lit) <= Len(input)
    /\ \A i \in 1..Len(lit) : input[p + i] = lit[i]

\* WhitespaceLen without the "\r\n" alternative.
WhitespaceLen_NoCrLf(p) ==
    IF At(p) \in {SPACE, TAB, NL} THEN 1 ELSE 0

\* let whitespace = [' ' '\t' '\n'] | "\r\n";  the length of one match at p.
WhitespaceLen(p) ==
    IF At(p) \in {SPACE, TAB, NL} THEN 1
    ELSE IF At(p) = CR /\ At(p + 1) = NL THEN 2
    ELSE 0

\* $whitespace*: the end of the longest run of whitespace matches from p.
RECURSIVE SkipWhitespace(_)
SkipWhitespace(p) ==
    IF WhitespaceLen(p) > 0 THEN SkipWhitespace(p + WhitespaceLen(p)) ELSE p

----------------------------------------------------------------------------
(* Tokens and byte strings *)

Token(kind, bytes, num) == [kind |-> kind, bytes |-> bytes, num |-> num]

Simple(kind) == Token(kind, << >>, 0)

\* char::encode_utf8
EncodeUtf8(c) ==
    IF c < 128 THEN << c >>
    ELSE IF c < 2048 THEN << 192 + (c \div 64), 128 + (c % 64) >>
    ELSE IF c < 65536
    THEN << 224 + (c \div 4096), 128 + ((c \div 64) % 64), 128 + (c % 64) >>
    ELSE << 240 + (c \div 262144), 128 + ((c \div 4096) % 64),
            128 + ((c \div 64) % 64), 128 + (c % 64) >>

\* str::as_bytes of the chars p+1 .. q of the input.
RECURSIVE AsBytes(_, _)
AsBytes(p, q) ==
    IF p >= q THEN << >> ELSE EncodeUtf8(input[p + 1]) \o AsBytes(p + 1, q)

----------------------------------------------------------------------------
(* Rule set Init: what matches at offset p *)

\* The rules with a token as right-hand side (`"+" = Token::Add`, ...), in
\* the order of the rule file: the literal's characters and the token.
FixedTokens ==
    << << << 43 >>, "Add" >>,                                 \* +
       << << 45 >>, "Minus" >>,                               \* -
       << << 42 >>, "Mul" >>,                                 \* *
       << << 47 >>, "Div" >>,                                 \* /
       << << 47, 47 >>, "IDiv" >>,                            \* //
       << << 37 >>, "Mod" >>,                                 \* %
       << << 94 >>, "Pow" >>,                                 \* ^
       << << 35 >>, "Len" >>,                                 \* #
       << << 61, 61 >>, "Equal" >>,                           \* ==
       << << 126, 61 >>, "NotEqual" >>,                       \* ~=
       << << 60, 61 >>, "LessEqual" >>,                       \* <=
       << << 62, 61 >>, "GreaterEqual" >>,                    \* >=
       << << 60 >>, "LessThan" >>,                            \* <
       << << 62 >>, "GreaterThan" >>,                         \* >
       << << 61 >>, "Assign" >>,                              \* =
       << << 40 >>, "LeftParen" >>,                           \* (
       << << 41 >>, "RightParen" >>,                          \* )
       << << 123 >>, "LeftBrace" >>,                          \* {
       << << 125 >>, "RightBrace" >>,                         \* }
       << << 93 >>, "RightBracket" >>,                        \* ]
       << << 59 >>, "SemiColon" >>,                           \* ;
       << << 58 >>, "Colon" >>,                               \* :
       << << 44 >>, "Comma" >>,                               \* ,
       << << 46 >>, "Dot" >>,                                 \* .
       << << 46, 46 >>, "Concat" >>,                          \* ..
       << << 46, 46, 46 >>, "Dots" >>,                        \* ...
       << << 38 >>, "BitAnd" >>,                              \* &
       << << 124 >>, "BitOr" >>,                              \* |
       << << 126 >>, "BitNotXor" >>,                          \* ~
       << << 62, 62 >>, "ShiftRight" >>,                      \* >>
       << << 60, 60 >>, "ShiftLeft" >>,                       \* <<
       << << 58, 58 >>, "DoubleColon" >>,                     \* ::
       << << 97, 110, 100 >>, "And" >>,                       \* and
       << << 98, 114, 101, 97, 107 >>, "Break" >>,            \* break
       << << 100, 111 >>, "Do" >>,                            \* do
       << << 101, 108, 115, 101 >>, "Else" >>,                \* else
       << << 101, 108, 115, 101, 105, 102 >>, "ElseIf" >>,    \* elseif
       << << 101, 110, 100 >>, "End" >>,                      \* end
       << << 102, 97, 108, 115, 101 >>, "False" >>,           \* false
       << << 102, 111, 114 >>, "For" >>,                      \* for
       << << 102, 117, 110, 99, 116, 105, 111, 110 >>, "Function" >>,\* function
       << << 105, 102 >>, "If" >>,                            \* if
       << << 105, 110 >>, "In" >>,                            \* in
       << << 108, 111, 99, 97, 108 >>, "Local" >>,            \* local
       << << 110, 105, 108 >>, "Nil" >>,                      \* nil
       << << 110, 111, 116 >>, "Not" >>,                      \* not
       << << 111, 114 >>, "Or" >>,                            \* or
       << << 114, 101, 112, 101, 97, 116 >>, "Repeat" >>,     \* repeat
       << << 114, 101, 116, 117, 114, 110 >>, "Return" >>,    \* return
       << << 116, 104, 101, 110 >>, "Then" >>,                \* then
       << << 116, 114, 117, 101 >>, "True" >>,                \* true
       << << 117, 110, 116, 105, 108 >>, "Until" >>,          \* until
       << << 119, 104, 105, 108, 101 >>, "While" >>,          \* while
       << << 103, 111, 116, 111 >>, "Goto" >> >>              \* goto

\* The number of these rules (lines 60-113).
NFixed == 54

\* The rules of Init in the order of the rule file: 1 is $whitespace, 1 + i
\* is the i-th fixed token, then the rules with a semantic action.
R_WHITESPACE == 1
R_DQUOTE == NFixed + 2
R_SQUOTE == NFixed + 3
R_LBRACKET == NFixed + 4
R_DASHDASH == NFixed + 5
R_NAME == NFixed + 6
R_NUM_DEC == NFixed + 7
R_NUM_FRAC == NFixed + 8
R_NUM_HEX == NFixed + 9

\* (('e' | 'E') ('+'|'-')? $digit+)? at offset q: its length, 0 when absent.
DecExponentLen(q) ==
    IF At(q) \in {CH_e, CH_E}
    THEN LET r == IF At(q + 1) \in {PLUS, DASH} THEN q + 2 ELSE q + 1
             d == Digits(r)
         IN  IF d >= 1 THEN r + d - q ELSE 0
    ELSE 0

\* (('p' | 'P') ('+'|'-')? $hex_digit+)? at offset q.
HexExponentLen(q) ==
    IF At(q) \in {CH_p, CH_P}
    THEN LET r == IF At(q + 1) \in {PLUS, DASH} THEN q + 2 ELSE q + 1
             d == HexDigits(r)
         IN  IF d >= 1 THEN r + d - q ELSE 0
    ELSE 0

\* $digit+ '.'? $digit* (('e' | 'E') ('+'|'-')? $digit+)?
NumDecLen(p) ==
    LET n1 == Digits(p)
        q1 == p + n1
        q2 == IF At(q1) = DOT THEN q1 + 1 ELSE q1
        q3 == q2 + Digits(q2)
    IN  IF n1 = 0 THEN 0 ELSE q3 + DecExponentLen(q3) - p

\* '.' $digit+ (('e' | 'E') ('+'|'-')? $digit+)?
NumFracLen(p) ==
    LET d == Digits(p + 1)
        q == p + 1 + d
    IN  IF At(p) = DOT /\ d >= 1 THEN q + DecExponentLen(q) - p ELSE 0

\* '0' ('x'|'X') $hex_digit? '.'? $hex_digit* (('p' | 'P') ('+'|'-')? $hex_digit+)?
\* The longest match takes the optional first hex digit whenever there is one.
NumHexLen(p) ==
    LET q0 == p + 2
        q1 == IF IsHexDigit(At(q0)) THEN q0 + 1 ELSE q0
        q2 == IF At(q1) = DOT THEN q1 + 1 ELSE q1
        q3 == q2 + HexDigits(q2)
    IN  IF At(p) = CH_0 /\ At(p + 1) \in {CH_x, CH_X}
        THEN q3 + HexExponentLen(q3) - p
        ELSE 0

\* The length of rule r's longest match at offset p, 0 when it does not match.
InitRuleLen(r, p) ==
    IF r = R_WHITESPACE THEN WhitespaceLen(p)
    ELSE IF r <= NFixed + 1
    THEN (IF LitAt(FixedTokens[r - 1][1], p) THEN Len(FixedTokens[r - 1][1]) ELSE 0)
    ELSE IF r = R_DQUOTE THEN (IF At(p) = DQUOTE THEN 1 ELSE 0)
    ELSE IF r = R_SQUOTE THEN (IF At(p) = SQUOTE THEN 1 ELSE 0)
    ELSE IF r = R_LBRACKET THEN (IF At(p) = LBRACKET THEN 1 ELSE 0)
    ELSE IF r = R_DASHDASH THEN (IF At(p) = DASH /\ At(p + 1) = DASH THEN 2 ELSE 0)
    ELSE IF r = R_NAME THEN (IF IsVarInit(At(p)) THEN 1 + VarSubseqs(p + 1) ELSE 0)
    ELSE IF r = R_NUM_DEC THEN NumDecLen(p)
    ELSE IF r = R_NUM_FRAC THEN NumFracLen(p)
    ELSE NumHexLen(p)

\* InitWinner taking the first rule of the file that matches, whatever the
\* length of its match.
InitWinner_FirstMatch(p) ==
    LET matching == {r \in 1..R_NUM_HEX : InitRuleLen(r, p) > 0}
        first == CHOOSE r \in matching : \A r2 \in matching : r <= r2
    IN  IF matching = {} THEN [rule |-> 0, len |-> 0]
        ELSE [rule |-> first, len |-> InitRuleLen(first, p)]

\* InitWinner taking, among the rules with the longest match, the last of
\* the file.
InitWinner_LastOnTie(p) ==
    LET matching == {r \in 1..R_NUM_HEX : InitRuleLen(r, p) > 0}
        first == CHOOSE r \in matching : \A r2 \in matching :
                     \/ InitRuleLen(r2, p) < InitRuleLen(r, p)
                     \/ InitRuleLen(r2, p) = InitRuleLen(r, p) /\ r >= r2
    IN  IF matching = {} THEN [rule |-> 0, len |-> 0]
        ELSE [rule |-> first, len |-> InitRuleLen(first, p)]

\* The generated DFA's choice at offset p: the longest match, and among the
\* rules with that match the first of the rule file; rule 0 when none matches.
InitWinner(p) ==
    LET matching == {r \in 1..R_NUM_HEX : InitRuleLen(r, p) > 0}
        first == CHOOSE r \in matching : \A r2 \in matching :
                     \/ InitRuleLen(r2, p) < InitRuleLen(r, p)
                     \/ InitRuleLen(r2, p) = InitRuleLen(r, p) /\ r <= r2
    IN  IF matching = {}
        THEN [rule |-> 0, len |-> 0]
        ELSE [rule |-> first, len |-> InitRuleLen(first, p)]

----------------------------------------------------------------------------
(* The numeral reader (luster::Lexer::read_numeral, called at line 422) *)

\* The value of a hex digit.
FromHexDigit(c) ==
    IF c >= CH_0 /\ c <= CH_9 THEN c - CH_0
    ELSE IF c >= CH_a /\ c <= CH_f THEN c - CH_a + 10
    ELSE c - CH_A + 10

\* The value of the decimal digits at offsets p .. q-1.
RECURSIVE DecValue(_, _)
DecValue(p, q) ==
    IF p >= q THEN 0 ELSE DecValue(p, q - 1) * 10 + (At(q - 1) - CH_0)

\* The value of the hex digits at offsets p .. q-1.
RECURSIVE HexValue(_, _)
HexValue(p, q) ==
    IF p >= q THEN 0 ELSE HexValue(p, q - 1) * 16 + FromHexDigit(At(q - 1))

\* read_numeral on the lexeme at offsets p .. q-1: an Integer token when the
\* lexeme has neither a radix point nor an exponent, a Float token otherwise
\* (its value is kept as the lexeme), BadNumber when a hex numeral has no
\* mantissa digit.  An integer lexeme of more than 9 decimal or 7 hex digits
\* keeps its lexeme as the value too.
ReadNumeral(p, q) ==
    LET hex == q - p >= 2 /\ At(p) = CH_0 /\ At(p + 1) \in {CH_x, CH_X}
        chars == {At(i) : i \in p..(q - 1)}
        float == Token("Float", AsBytes(p, q), 0)
    IN  IF hex
        THEN IF ~ \E i \in (p + 2)..(q - 1) : IsHexDigit(At(i))
             THEN [ok |-> FALSE, err |-> "BadNumber"]
             ELSE IF chars \cap {DOT, CH_p, CH_P} # {}
             THEN [ok |-> TRUE, tok |-> float]
             ELSE IF q - p - 2 > 7
             THEN [ok |-> TRUE, tok |-> Token("Integer", AsBytes(p, q), 0)]
             ELSE [ok |-> TRUE, tok |-> Token("Integer", << >>, HexValue(p + 2, q))]
        ELSE IF chars \cap {DOT, CH_e, CH_E} # {}
             THEN [ok |-> TRUE, tok |-> float]
             ELSE IF q - p > 9
             THEN [ok |-> TRUE, tok |-> Token("Integer", AsBytes(p, q), 0)]
             ELSE [ok |-> TRUE, tok |-> Token("Integer", << >>, DecValue(p, q))]

----------------------------------------------------------------------------
(* The iteration protocol of the generated lexer *)

MaxEofCalls == 2
MaxErrCalls == 2

\* A step of the scanner can be taken: the process has not panicked and the
\* caller still calls next().
Active == last # "panic" /\ err_calls < MaxErrCalls /\ eof_calls < MaxEofCalls

\* LexerAction::Continue of continue_() and switch(): the call goes on.
Continue_ ==
    /\ in_call' = TRUE
    /\ UNCHANGED << tokens, last, eof_calls, err_calls, last_error >>

\* LexerAction::Return of return_() and switch_and_return(): next() returns
\* Some(Ok(token)).
Return_(tok) ==
    /\ tokens' = Append(tokens, tok)
    /\ last' = "token"
    /\ in_call' = FALSE
    /\ UNCHANGED << eof_calls, err_calls, last_error >>

\* next() returns Some(Err(e)).
Error_(e) ==
    /\ last' = "error"
    /\ last_error' = e
    /\ err_calls' = err_calls + 1
    /\ in_call' = FALSE
    /\ UNCHANGED << tokens, eof_calls >>

\* The process panics inside next(): nothing is returned.
Panic_ ==
    /\ last' = "panic"
    /\ in_call' = TRUE
    /\ UNCHANGED << tokens, eof_calls, err_calls, last_error >>

\* The fields of LexerState a step leaves alone.
KeepLongString == UNCHANGED << long_string_opening_eqs, long_string_closing_eqs,
                               in_comment, entered_from >>
KeepShortString == UNCHANGED << short_string_delim, string_buf,
                                unicode_codepoint, profile >>

----------------------------------------------------------------------------
(* Rule set Init *)

InInit == Active /\ rule = "Init" /\ pos < Len(input)

\* $whitespace,
InitWhitespace ==
    /\ InInit
    /\ InitRuleLen(R_WHITESPACE, pos) > 0
    /\ InitWinner(pos).rule = R_WHITESPACE
    /\ pos' = pos + InitWinner(pos).len
    /\ match_start' = pos'
    /\ Continue_
    /\ KeepLongString /\ KeepShortString
    /\ UNCHANGED << input, rule >>

\* "+" = Token::Add, ... "goto" = Token::Goto,
InitFixedToken ==
    /\ InInit
    /\ InitWinner(pos).rule > R_WHITESPACE
    /\ InitWinner(pos).rule <= NFixed + 1
    /\ pos' = pos + InitWinner(pos).len
    /\ match_start' = pos'
    /\ Return_(Simple(FixedTokens[InitWinner(pos).rule - 1][2]))
    /\ KeepLongString /\ KeepShortString
    /\ UNCHANGED << input, rule >>

\* '"' => ...
InitDoubleQuote ==
    /\ InInit
    /\ InitRuleLen(R_DQUOTE, pos) > 0
    /\ InitWinner(pos).rule = R_DQUOTE
    /\ short_string_delim' = "Double"
    /\ string_buf' = << >>
    /\ rule' = "String"
    /\ pos' = pos + 1
    /\ Continue_
    /\ KeepLongString
    /\ UNCHANGED << input, match_start, unicode_codepoint, profile >>

\* '\'' => ...
InitSingleQuote ==
    /\ InInit
    /\ InitRuleLen(R_SQUOTE, pos) > 0
    /\ InitWinner(pos).rule = R_SQUOTE
    /\ short_string_delim' = "Single"
    /\ string_buf' = << >>
    /\ rule' = "String"
    /\ pos' = pos + 1
    /\ Continue_
    /\ KeepLongString
    /\ UNCHANGED << input, match_start, unicode_codepoint, profile >>

\* InitLeftBracket without `in_comment = false`: the flag keeps the value the
\* last long bracket left in it.
InitLeftBracket_StaleFlag ==
    /\ InInit
    /\ InitRuleLen(R_LBRACKET, pos) > 0
    /\ InitWinner(pos).rule = R_LBRACKET
    /\ pos' = pos + 1
    /\ IF Peek(pos + 1) \in {LBRACKET, EQUALS}
       THEN /\ long_string_opening_eqs' = 0
            /\ entered_from' = "Init"
            /\ rule' = "LongStringBracketLeft"
            /\ Continue_
            /\ UNCHANGED << match_start, long_string_closing_eqs, in_comment >>
       ELSE /\ Return_(Simple("LeftBracket"))
            /\ match_start' = pos'
            /\ KeepLongString
            /\ UNCHANGED rule
    /\ KeepShortString
    /\ UNCHANGED input

\* "[" => ...
InitLeftBracket ==
    /\ InInit
    /\ InitRuleLen(R_LBRACKET, pos) > 0
    /\ InitWinner(pos).rule = R_LBRACKET
    /\ pos' = pos + 1
    /\ IF Peek(pos + 1) \in {LBRACKET, EQUALS}
       THEN /\ long_string_opening_eqs' = 0
            /\ in_comment' = FALSE
            /\ entered_from' = "Init"
            /\ rule' = "LongStringBracketLeft"
            /\ Continue_
            /\ UNCHANGED << match_start, long_string_closing_eqs >>
       ELSE /\ Return_(Simple("LeftBracket"))
            /\ match_start' = pos'
            /\ KeepLongString
            /\ UNCHANGED rule
    /\ KeepShortString
    /\ UNCHANGED input

\* "--" => ...
InitDashDash ==
    /\ InInit
    /\ InitRuleLen(R_DASHDASH, pos) > 0
    /\ InitWinner(pos).rule = R_DASHDASH
    /\ pos' = pos + 2
    /\ rule' = "EnterComment"
    /\ Continue_
    /\ KeepLongString /\ KeepShortString
    /\ UNCHANGED << input, match_start >>

\* $var_init $var_subseq* => ...
InitName ==
    /\ InInit
    /\ InitRuleLen(R_NAME, pos) > 0
    /\ InitWinner(pos).rule = R_NAME
    /\ pos' = pos + InitWinner(pos).len
    /\ match_start' = pos'
    /\ Return_(Token("Name", AsBytes(match_start, pos'), 0))
    /\ KeepLongString /\ KeepShortString
    /\ UNCHANGED << input, rule >>

\* The three numeral rules, `=? |lexer| lexer.return_(read_numeral(match_))`.
InitNumeral(r) ==
    /\ InInit
    /\ InitRuleLen(r, pos) > 0
    /\ InitWinner(pos).rule = r
    /\ pos' = pos + InitWinner(pos).len
    /\ match_start' = pos'
    /\ LET res == ReadNumeral(match_start, pos')
       IN  IF res.ok THEN Return_(res.tok) ELSE Error_(res.err)
    /\ KeepLongString /\ KeepShortString
    /\ UNCHANGED << input, rule >>

InitNumeralDec == InitNumeral(R_NUM_DEC)
InitNumeralFrac == InitNumeral(R_NUM_FRAC)
InitNumeralHex == InitNumeral(R_NUM_HEX)

\* InitEof starting over at the beginning of the input.
InitEof_Rewind ==
    /\ Active
    /\ rule = "Init"
    /\ pos = Len(input)
    /\ last' = "eof"
    /\ eof_calls' = eof_calls + 1
    /\ in_call' = FALSE
    /\ pos' = 0
    /\ match_start' = 0
    /\ KeepLongString /\ KeepShortString
    /\ UNCHANGED << input, rule, tokens, err_calls, last_error >>

\* The end of the input in rule set Init: next() returns None.
InitEof ==
    /\ Active
    /\ rule = "Init"
    /\ pos = Len(input)
    /\ last' = "eof"
    /\ eof_calls' = eof_calls + 1
    /\ in_call' = FALSE
    /\ KeepLongString /\ KeepShortString
    /\ UNCHANGED << input, pos, match_start, rule, tokens, err_calls, last_error >>

\* No rule of Init matches: next() returns the scanner's own error.  The
\* first half of "\r\n" is read before the scanner is stuck.
InitFail ==
    /\ InInit
    /\ InitWinner(pos).rule = 0
    /\ pos' = IF At(pos) = CR THEN pos + 1 ELSE pos
    /\ match_start' = pos'
    /\ Error_("InvalidToken")
    /\ KeepLongString /\ KeepShortString
    /\ UNCHANGED << input, rule >>

----------------------------------------------------------------------------
(* Rule sets LongStringBracketLeft, LongString, LongStringBracketRight *)

InRule(r) == Active /\ rule = r /\ pos < Len(input)

\* '=' => ...
LongStringBracketLeft_Eq ==
    /\ InRule("LongStringBracketLeft")
    /\ At(pos) = EQUALS
    /\ long_string_opening_eqs' = long_string_opening_eqs + 1
    /\ pos' = pos + 1
    /\ Continue_
    /\ KeepShortString
    /\ UNCHANGED << input, match_start, rule, long_string_closing_eqs,
                    in_comment, entered_from >>

\* '[' => ...
LongStringBracketLeft_Open ==
    /\ InRule("LongStringBracketLeft")
    /\ At(pos) = LBRACKET
    /\ rule' = "LongString"
    /\ pos' = pos + 1
    /\ Continue_
    /\ KeepLongString /\ KeepShortString
    /\ UNCHANGED << input, match_start >>

\* ']' => ...
LongString_RightBracket ==
    /\ InRule("LongString")
    /\ At(pos) = RBRACKET
    /\ long_string_closing_eqs' = 0
    /\ rule' = "LongStringBracketRight"
    /\ pos' = pos + 1
    /\ Continue_
    /\ KeepShortString
    /\ UNCHANGED << input, match_start, long_string_opening_eqs, in_comment,
                    entered_from >>

\* _ => ...
LongString_Any ==
    /\ InRule("LongString")
    /\ At(pos) # RBRACKET
    /\ pos' = pos + 1
    /\ Continue_
    /\ KeepLongString /\ KeepShortString
    /\ UNCHANGED << input, match_start, rule >>

\* '=' => ...
LongStringBracketRight_Eq ==
    /\ InRule("LongStringBracketRight")
    /\ At(pos) = EQUALS
    /\ long_string_closing_eqs' = long_string_closing_eqs + 1
    /\ pos' = pos + 1
    /\ Continue_
    /\ KeepShortString
    /\ UNCHANGED << input, match_start, rule, long_string_opening_eqs,
                    in_comment, entered_from >>

\* LongStringBracketRight_Close without `long_string_closing_eqs = 0` on a
\* mismatch.
LongStringBracketRight_Close_NoReset ==
    /\ InRule("LongStringBracketRight")
    /\ At(pos) = RBRACKET
    /\ pos' = pos + 1
    /\ LET left_eqs == long_string_opening_eqs
           right_eqs == long_string_closing_eqs
       IN  IF left_eqs = right_eqs
           THEN /\ rule' = "Init"
                /\ match_start' = pos'
                /\ IF in_comment
                   THEN Continue_
                   ELSE Return_(Token("String",
                            AsBytes(match_start + left_eqs + 2, pos' - right_eqs - 2),
                            0))
                /\ UNCHANGED long_string_closing_eqs
           ELSE /\ Continue_
                /\ UNCHANGED << rule, match_start, long_string_closing_eqs >>
    /\ KeepShortString
    /\ UNCHANGED << input, long_string_opening_eqs, in_comment, entered_from >>

\* LongStringBracketRight_Close closing on any closing sequence with at least
\* as many `=` as the opener (`left_eqs <= right_eqs`).
LongStringBracketRight_Close_AtLeast ==
    /\ InRule("LongStringBracketRight")
    /\ At(pos) = RBRACKET
    /\ pos' = pos + 1
    /\ LET left_eqs == long_string_opening_eqs
           right_eqs == long_string_closing_eqs
       IN  IF left_eqs <= right_eqs
           THEN /\ rule' = "Init"
                /\ match_start' = pos'
                /\ IF in_comment
                   THEN Continue_
                   ELSE Return_(Token("String",
                            AsBytes(match_start + left_eqs + 2, pos' - right_eqs - 2),
                            0))
                /\ UNCHANGED long_string_closing_eqs
           ELSE /\ long_string_closing_eqs' = 0
                /\ Continue_
                /\ UNCHANGED << rule, match_start >>
    /\ KeepShortString
    /\ UNCHANGED << input, long_string_opening_eqs, in_comment, entered_from >>

\* LongStringBracketRight_Close leaving the closing rule set on a mismatch
\* (`switch(LexerRule::LongString)` in place of `continue_()`).
LongStringBracketRight_Close_ToBody ==
    /\ InRule("LongStringBracketRight")
    /\ At(pos) = RBRACKET
    /\ pos' = pos + 1
    /\ LET left_eqs == long_string_opening_eqs
           right_eqs == long_string_closing_eqs
       IN  IF left_eqs = right_eqs
           THEN /\ rule' = "Init"
                /\ match_start' = pos'
                /\ IF in_comment
                   THEN Continue_
                   ELSE Return_(Token("String",
                            AsBytes(match_start + left_eqs + 2, pos' - right_eqs - 2),
                            0))
                /\ UNCHANGED long_string_closing_eqs
           ELSE /\ long_string_closing_eqs' = 0
                /\ rule' = "LongString"
                /\ Continue_
                /\ UNCHANGED match_start
    /\ KeepShortString
    /\ UNCHANGED << input, long_string_opening_eqs, in_comment, entered_from >>

\* ']' => ...
LongStringBracketRight_Close ==
    /\ InRule("LongStringBracketRight")
    /\ At(pos) = RBRACKET
    /\ pos' = pos + 1
    /\ LET left_eqs == long_string_opening_eqs
           right_eqs == long_string_closing_eqs
       IN  IF left_eqs = right_eqs
           THEN /\ rule' = "Init"
                /\ match_start' = pos'
                /\ IF in_comment
                   THEN Continue_
                   ELSE Return_(Token("String",
                            AsBytes(match_start + left_eqs + 2, pos' - right_eqs - 2),
                            0))
                /\ UNCHANGED long_string_closing_eqs
           ELSE /\ long_string_closing_eqs' = 0
                /\ Continue_
                /\ UNCHANGED << rule, match_start >>
    /\ KeepShortString
    /\ UNCHANGED << input, long_string_opening_eqs, in_comment, entered_from >>

\* _ => ...
LongStringBracketRight_Any ==
    /\ InRule("LongStringBracketRight")
    /\ At(pos) \notin {EQUALS, RBRACKET}
    /\ rule' = "LongString"
    /\ pos' = pos + 1
    /\ Continue_
    /\ KeepLongString /\ KeepShortString
    /\ UNCHANGED << input, match_start >>

----------------------------------------------------------------------------
(* Rule sets EnterComment and Comment *)

\* EnterComment_LeftBracket without `in_comment = true`.
EnterComment_LeftBracket_NoFlag ==
    /\ InRule("EnterComment")
    /\ At(pos) = LBRACKET
    /\ pos' = pos + 1
    /\ IF Peek(pos + 1) \in {LBRACKET, EQUALS}
       THEN /\ long_string_opening_eqs' = 0
            /\ entered_from' = "EnterComment"
            /\ rule' = "LongStringBracketLeft"
            /\ UNCHANGED << long_string_closing_eqs, in_comment >>
       ELSE /\ rule' = "Comment"
            /\ KeepLongString
    /\ Continue_
    /\ KeepShortString
    /\ UNCHANGED << input, match_start >>

\* '[' => ...
EnterComment_LeftBracket ==
    /\ InRule("EnterComment")
    /\ At(pos) = LBRACKET
    /\ pos' = pos + 1
    /\ IF Peek(pos + 1) \in {LBRACKET, EQUALS}
       THEN /\ long_string_opening_eqs' = 0
            /\ in_comment' = TRUE
            /\ entered_from' = "EnterComment"
            /\ rule' = "LongStringBracketLeft"
            /\ UNCHANGED long_string_closing_eqs
       ELSE /\ rule' = "Comment"
            /\ KeepLongString
    /\ Continue_
    /\ KeepShortString
    /\ UNCHANGED << input, match_start >>

\* _ => ...
EnterComment_Any ==
    /\ InRule("EnterComment")
    /\ At(pos) # LBRACKET
    /\ rule' = "Comment"
    /\ pos' = pos + 1
    /\ Continue_
    /\ KeepLongString /\ KeepShortString
    /\ UNCHANGED << input, match_start >>

\* '\n' => ...
Comment_Newline ==
    /\ InRule("Comment")
    /\ At(pos) = NL
    /\ rule' = "Init"
    /\ pos' = pos + 1
    /\ match_start' = pos'
    /\ Continue_
    /\ KeepLongString /\ KeepShortString
    /\ UNCHANGED input

\* _ => ...
Comment_Any ==
    /\ InRule("Comment")
    /\ At(pos) # NL
    /\ pos' = pos + 1
    /\ Continue_
    /\ KeepLongString /\ KeepShortString
    /\ UNCHANGED << input, match_start, rule >>

----------------------------------------------------------------------------
(* Rule set String *)

\* The escapes that push one byte: "\\a" ... "\\\n", in the order of the rule
\* file, each with the byte it pushes.
EscapeChars ==
    << << 97, 7 >>,           \* \a
       << 98, 8 >>,           \* \b
       << 102, 12 >>,         \* \f
       << 110, 10 >>,         \* \n
       << 114, 13 >>,         \* \r
       << 116, 9 >>,          \* \t
       << 118, 11 >>,         \* \v
       << 92, 92 >>,          \* \\
       << 34, 34 >>,          \* \"
       << 39, 39 >>,          \* \'
       << 10, 10 >> >>        \* \<newline>

IsEscapeChar(c) == \E i \in 1..Len(EscapeChars) : EscapeChars[i][1] = c

EscapeByte(c) ==
    EscapeChars[CHOOSE i \in 1..Len(EscapeChars) : EscapeChars[i][1] = c][2]

\* The rules of String that start with a backslash; the names of the other
\* three rules.  StringWinner is the DFA's choice at offset p: the longest
\* match, which for a backslash that starts no escape is the wildcard's.
StringWinner(p) ==
    LET c == At(p)
        d == At(p + 1)
    IN  IF c = DQUOTE THEN [rule |-> "dquote", len |-> 1]
        ELSE IF c = SQUOTE THEN [rule |-> "squote", len |-> 1]
        ELSE IF c # BACKSLASH THEN [rule |-> "any", len |-> 1]
        ELSE IF IsEscapeChar(d) THEN [rule |-> "escape", len |-> 2]
        ELSE IF IsDigit(d)
        THEN (IF IsDigit(At(p + 2))
              THEN (IF IsDigit(At(p + 3))
                    THEN [rule |-> "decimal3", len |-> 4]
                    ELSE [rule |-> "decimal2", len |-> 3])
              ELSE [rule |-> "decimal1", len |-> 2])
        ELSE IF d = CH_x /\ IsHexDigit(At(p + 2)) /\ IsHexDigit(At(p + 3))
        THEN [rule |-> "hex", len |-> 4]
        ELSE IF d = CH_u /\ At(p + 2) = LBRACE
        THEN [rule |-> "unicode", len |-> 3]
        ELSE IF d = CH_z
        THEN [rule |-> "skip", len |-> SkipWhitespace(p + 2) - p]
        ELSE [rule |-> "any", len |-> 1]

InString(r) == InRule("String") /\ StringWinner(pos).rule = r

KeepInString ==
    UNCHANGED << input, match_start, rule, short_string_delim, unicode_codepoint >>

\* '"' => ...
String_DoubleQuote ==
    /\ InString("dquote")
    /\ pos' = pos + 1
    /\ IF short_string_delim = "Double"
       THEN /\ string_buf' = << >>
            /\ rule' = "Init"
            /\ match_start' = pos'
            /\ Return_(Token("String", string_buf, 0))
       ELSE /\ string_buf' = Append(string_buf, DQUOTE)
            /\ Continue_
            /\ UNCHANGED << rule, match_start >>
    /\ KeepLongString
    /\ UNCHANGED << input, short_string_delim, unicode_codepoint, profile >>

\* "'" => ...
String_SingleQuote ==
    /\ InString("squote")
    /\ pos' = pos + 1
    /\ IF short_string_delim = "Single"
       THEN /\ string_buf' = << >>
            /\ rule' = "Init"
            /\ match_start' = pos'
            /\ Return_(Token("String", string_buf, 0))
       ELSE /\ string_buf' = Append(string_buf, SQUOTE)
            /\ Continue_
            /\ UNCHANGED << rule, match_start >>
    /\ KeepLongString
    /\ UNCHANGED << input, short_string_delim, unicode_codepoint, profile >>

\* "\\a" => ... "\\\n" => ...
String_EscapeChar ==
    /\ InString("escape")
    /\ string_buf' = Append(string_buf, EscapeByte(At(pos + 1)))
    /\ pos' = pos + 2
    /\ Continue_
    /\ KeepLongString /\ KeepInString
    /\ UNCHANGED profile

\* '\\' $digit => ...
String_Decimal1 ==
    /\ InString("decimal1")
    /\ LET digit == At(pos + 1) - CH_0
       IN  string_buf' = Append(string_buf, digit)
    /\ pos' = pos + 2
    /\ Continue_
    /\ KeepLongString /\ KeepInString
    /\ UNCHANGED profile

\* '\\' $digit $digit => ...
String_Decimal2 ==
    /\ InString("decimal2")
    /\ LET digit1 == At(pos + 1) - CH_0
           digit2 == At(pos + 2) - CH_0
       IN  string_buf' = Append(string_buf, digit1 * 10 + digit2)
    /\ pos' = pos + 3
    /\ Continue_
    /\ KeepLongString /\ KeepInString
    /\ UNCHANGED profile

\* The build profiles an integer overflow can reveal: with overflow checks
\* (debug, the profile of the tests) the arithmetic panics, without them
\* (release, the profile of the benchmarks) it wraps.
Profiles == IF profile = "unknown" THEN {"debug", "release"} ELSE {profile}

\* '\\' $digit $digit $digit => ...  (u8 arithmetic)
String_Decimal3 ==
    /\ InString("decimal3")
    /\ pos' = pos + 4
    /\ LET digit1 == At(pos + 1) - CH_0
           digit2 == At(pos + 2) - CH_0
           digit3 == At(pos + 3) - CH_0
           value == digit1 * 100 + digit2 * 10 + digit3
       IN  IF value <= 255
           THEN /\ string_buf' = Append(string_buf, value)
                /\ Continue_
                /\ UNCHANGED profile
           ELSE \E pr \in Profiles :
                   /\ profile' = pr
                   /\ IF pr = "debug"
                      THEN Panic_ /\ UNCHANGED string_buf
                      ELSE /\ string_buf' = Append(string_buf, value % 256)
                           /\ Continue_
    /\ KeepLongString /\ KeepInString

\* "\\x" $hex_digit $hex_digit => ...
String_HexEscape ==
    /\ InString("hex")
    /\ LET digit1 == FromHexDigit(At(pos + 2))
           digit2 == FromHexDigit(At(pos + 3))
       IN  string_buf' = Append(string_buf, digit1 * 16 + digit2)
    /\ pos' = pos + 4
    /\ Continue_
    /\ KeepLongString /\ KeepInString
    /\ UNCHANGED profile

\* "\\u{" => ...   (unicode_codepoint: u32 is kept as hi * 2^24 + lo)
String_UnicodeStart ==
    /\ InString("unicode")
    /\ unicode_codepoint' = [hi |-> 0, lo |-> 0]
    /\ rule' = "UnicodeCodepoint"
    /\ pos' = pos + 3
    /\ Continue_
    /\ KeepLongString
    /\ UNCHANGED << input, match_start, short_string_delim, string_buf, profile >>

\* String_SkipZ matching "\\z" alone, without `$whitespace*`.
String_SkipZ_NoWhitespace ==
    /\ InString("skip")
    /\ pos' = pos + 2
    /\ Continue_
    /\ KeepLongString /\ KeepInString
    /\ UNCHANGED << string_buf, profile >>

\* "\\z" $whitespace*,
String_SkipZ ==
    /\ InString("skip")
    /\ pos' = pos + StringWinner(pos).len
    /\ Continue_
    /\ KeepLongString /\ KeepInString
    /\ UNCHANGED << string_buf, profile >>

\* _ => ...
String_Any ==
    /\ InString("any")
    /\ LET char == At(pos)
       IN  string_buf' = string_buf \o EncodeUtf8(char)
    /\ pos' = pos + 1
    /\ Continue_
    /\ KeepLongString /\ KeepInString
    /\ UNCHANGED profile

----------------------------------------------------------------------------
(* Rule set UnicodeCodepoint *)

\* HexDigitValue without the `+ 10` of the upper-case branch.
HexDigitValue_UpperNoOffset(c) ==
    IF c >= CH_0 /\ c <= CH_9 THEN c - CH_0
    ELSE IF c >= CH_a /\ c <= CH_f THEN c - CH_a + 10
    ELSE c - CH_A

\* The digit of lines 365-371.
HexDigitValue(c) ==
    IF c >= CH_0 /\ c <= CH_9 THEN c - CH_0
    ELSE IF c >= CH_a /\ c <= CH_f THEN c - CH_a + 10
    ELSE c - CH_A + 10

\* Whether char::try_from accepts the u32: a Unicode scalar value.
IsScalarValue(cp) ==
    /\ cp.hi = 0
    /\ cp.lo <= 1114111
    /\ ~ (cp.lo >= 55296 /\ cp.lo <= 57343)

\* $hex_digit => ...   (u32 arithmetic: `*= 16` overflows when the top four
\* bits are not all zero; `+= digit` then never does)
UnicodeCodepoint_HexDigit ==
    /\ InRule("UnicodeCodepoint")
    /\ IsHexDigit(At(pos))
    /\ pos' = pos + 1
    /\ LET digit == HexDigitValue(At(pos))
           lo16 == unicode_codepoint.lo * 16
           hi16 == unicode_codepoint.hi * 16 + (lo16 \div 2^24)
           wrapped == [hi |-> hi16 % 256, lo |-> (lo16 % 2^24) + digit]
       IN  IF hi16 < 256
           THEN /\ unicode_codepoint' = wrapped
                /\ Continue_
                /\ UNCHANGED profile
           ELSE \E pr \in Profiles :
                   /\ profile' = pr
                   /\ IF pr = "debug"
                      THEN Panic_ /\ UNCHANGED unicode_codepoint
                      ELSE unicode_codepoint' = wrapped /\ Continue_
    /\ KeepLongString
    /\ UNCHANGED << input, match_start, rule, short_string_delim, string_buf >>

\* '}' => ...
UnicodeCodepoint_Close ==
    /\ InRule("UnicodeCodepoint")
    /\ At(pos) = RBRACE
    /\ pos' = pos + 1
    /\ IF IsScalarValue(unicode_codepoint)
       THEN /\ string_buf' = string_buf \o EncodeUtf8(unicode_codepoint.lo)
            /\ rule' = "String"
            /\ Continue_
       ELSE /\ Panic_
            /\ UNCHANGED << string_buf, rule >>
    /\ KeepLongString
    /\ UNCHANGED << input, match_start, short_string_delim, unicode_codepoint,
                    profile >>

----------------------------------------------------------------------------
(* Failures of the scanner *)

\* The next character starts no rule of the current rule set: only
\* LongStringBracketLeft and UnicodeCodepoint have no wildcard rule.
RuleSetFail ==
    /\ \/ InRule("LongStringBracketLeft") /\ At(pos) \notin {EQUALS, LBRACKET}
       \/ InRule("UnicodeCodepoint") /\ ~ IsHexDigit(At(pos)) /\ At(pos) # RBRACE
    /\ rule' = "Init"
    /\ match_start' = pos
    /\ Error_("InvalidToken")
    /\ KeepLongString /\ KeepShortString
    /\ UNCHANGED << input, pos >>

\* The input ends in a rule set other than Init.
EofFail ==
    /\ Active
    /\ rule # "Init"
    /\ pos = Len(input)
    /\ rule' = "Init"
    /\ match_start' = pos
    /\ Error_("InvalidToken")
    /\ KeepLongString /\ KeepShortString
    /\ UNCHANGED << input, pos >>

----------------------------------------------------------------------------
(* Source texts *)

SeqsUpTo(S, n) == UNION {[1..k -> S] : k \in 0..n}

\* The worked examples of the specification (section 8).
TextLongString == Str(<< "[", "=", "[", "h", "i", "]", "=", "=", "]", "=", "=", "]" >>)
TextLongStringClosed == Str(<< "[", "=", "[", "h", "i", "]", "=", "=", "]", "=", "]" >>)
TextLongComment ==
    Str(<< "-", "-", "[", "[", " ", "c", "o", "m", "m", "e", "n", "t", " ", "]", "]", "x" >>)
TextAdd == Str(<< "+" >>)
TextAddAssign == Str(<< "+", "=" >>)
TextLocal == Str(<< "l", "o", "c", "a", "l", " ", "x", " ", "=", " ", "1", "0" >>)
TextSkipZ == Str(<< "\"", "\\", "z", " ", " ", " ", "\\", "n", "\"" >>)
TextHexFraction == Str(<< "0", "x", "1", "A", ".", "8" >>)
TextSurrogate == Str(<< "\"", "\\", "u", "{", "D", "8", "0", "0", "}", "\"" >>)

\* The worked examples and one text for every rule.
Scenarios ==
    { TextLongString, TextLongStringClosed, TextLongComment, TextAdd,
      TextAddAssign, TextLocal, TextSkipZ, TextSurrogate,
      Str(<< "\"", "\\", "u", "{", "2", "0", "a", "C", "}", "\"" >>),
      Str(<< "\"", "\\", "u", "{", "1", "0", "0", "0", "0", "0", "0", "4", "1",
             "}", "\"" >>),
      Str(<< "\"", "\\", "3", "0", "0", "\\", "6", "5", "\\", "7", "\\", "1",
             "2", "8", "\"" >>),
      Str(<< "'", "a", "\"", "\\", "x", "4", "1", "\\", "q", "'", "\"", "'",
             "\"" >>),
      Str(<< "0", "x", "1", "A", " ", "3", ".", "1", "4", "e", "2", " ", ".",
             "5", " ", "0", "x", "1", "p", "4", " ", "0", "x" >>),
      Str(<< "[", "x", "]", "-", "-", "[", "c", "\n", "-", "-", "\n", "y" >>),
      Str(<< "x", " ", "-", "-", " ", "n", "o", "t", "e" >>),
      Str(<< "@", "x" >>),
      Str(<< "[", "[", "a", "]", "b", "]", "]" >>),
      Str(<< "[", "=", "x" >>),
      Str(<< "0", "x", " ", "y" >>),
      TextHexFraction,
      Str(<< "\"", "\\", "u", "{", "x" >>),
      Str(<< "\"", "a", "b", "c" >>) }

\* The state after Lexer::new(text): LexerState::default() and rule set Init.
InitWith(texts) ==
    /\ input \in texts
    /\ pos = 0
    /\ match_start = 0
    /\ rule = "Init"
    /\ long_string_opening_eqs = 0
    /\ long_string_closing_eqs = 0
    /\ short_string_delim = "Single"
    /\ string_buf = << >>
    /\ in_comment = FALSE
    /\ unicode_codepoint = [hi |-> 0, lo |-> 0]
    /\ tokens = << >>
    /\ last = "none"
    /\ in_call = FALSE
    /\ eof_calls = 0
    /\ err_calls = 0
    /\ last_error = "none"
    /\ profile = "unknown"
    /\ entered_from = "none"

\* Texts of up to MaxLen characters that mix the constructs.
MaxLen == 4
MixedChars == {DASH, LBRACKET, RBRACKET, EQUALS, DQUOTE, BACKSLASH, CH_a, NL}
MixedTexts == SeqsUpTo(MixedChars, MaxLen)

Init == InitWith(Scenarios \cup MixedTexts)

Next ==
    \/ InitWhitespace
    \/ InitFixedToken
    \/ InitDoubleQuote
    \/ InitSingleQuote
    \/ InitLeftBracket
    \/ InitDashDash
    \/ InitName
    \/ InitNumeralDec
    \/ InitNumeralFrac
    \/ InitNumeralHex
    \/ InitEof
    \/ InitFail
    \/ LongStringBracketLeft_Eq
    \/ LongStringBracketLeft_Open
    \/ LongString_RightBracket
    \/ LongString_Any
    \/ LongStringBracketRight_Eq
    \/ LongStringBracketRight_Close
    \/ LongStringBracketRight_Any
    \/ EnterComment_LeftBracket
    \/ EnterComment_Any
    \/ Comment_Newline
    \/ Comment_Any
    \/ String_DoubleQuote
    \/ String_SingleQuote
    \/ String_EscapeChar
    \/ String_Decimal1
    \/ String_Decimal2
    \/ String_Decimal3
    \/ String_HexEscape
    \/ String_UnicodeStart
    \/ String_SkipZ
    \/ String_Any
    \/ UnicodeCodepoint_HexDigit
    \/ UnicodeCodepoint_Close
    \/ RuleSetFail
    \/ EofFail

Spec == Init /\ [][Next]_vars

----------------------------------------------------------------------------
(* Long brackets: C1, C2, C3 *)

\* Texts that open a long bracket of level 0 .. MaxLevel, as a string or after
\* "--" as a comment, and go on with up to MaxBodyLen characters of which any
\* may belong to a closing sequence.
MaxLevel == 2
MaxBodyLen == 6

Opener(n) == << LBRACKET >> \o [i \in 1..n |-> EQUALS] \o << LBRACKET >>

LongTexts ==
    { pre \o Opener(n) \o body :
        pre \in {<< >>, << DASH, DASH >>},
        n \in 0..MaxLevel,
        body \in SeqsUpTo({RBRACKET, EQUALS, CH_a}, MaxBodyLen) }

InitLong == InitWith(Scenarios \cup LongTexts)
SpecLong == InitLong /\ [][Next]_vars

\* The level of the long-bracket opener that starts at index i of the input
\* (`[`, n `=`, `[`), -1 when none starts there.
RECURSIVE EqualsRun(_)
EqualsRun(i) ==
    IF i <= Len(input) /\ input[i] = EQUALS THEN 1 + EqualsRun(i + 1) ELSE 0

OpenerLevel(i) ==
    IF /\ i <= Len(input)
       /\ input[i] = LBRACKET
       /\ i + EqualsRun(i + 1) + 1 <= Len(input)
       /\ input[i + EqualsRun(i + 1) + 1] = LBRACKET
    THEN EqualsRun(i + 1)
    ELSE -1

\* A closing sequence of level k (`]`, k `=`, `]`) is at indices i .. i+k+1.
CloserAt(i, k) ==
    /\ i >= 1
    /\ i + k + 1 <= Len(input)
    /\ input[i] = RBRACKET
    /\ \A j \in 1..k : input[i + j] = EQUALS
    /\ input[i + k + 1] = RBRACKET

\* The index of the first closing sequence of level n at or after index i, 0
\* when there is none.
FirstCloser(i, n) ==
    IF \E c \in i..Len(input) : CloserAt(c, n)
    THEN CHOOSE c \in i..Len(input) :
             CloserAt(c, n) /\ \A d \in i..(c - 1) : ~ CloserAt(d, n)
    ELSE 0

StringToken(bytes) == Token("String", bytes, 0)

\* C1: a text that starts with a long-bracket opener of level n yields no
\* token before the scanner has read the first closing sequence of the same
\* level n; once it has, the first token is the String whose payload is the
\* text between the opener and that closing sequence, closing sequences of
\* other levels included; with no closing sequence of level n no token is
\* ever returned.
C1_LongStringClosesAtSameLevel ==
    LET n == OpenerLevel(1)
        c == FirstCloser(n + 3, n)
    IN  n >= 0 =>
          IF c = 0
          THEN tokens = << >>
          ELSE /\ pos < c + n + 1 => tokens = << >>
               /\ pos >= c + n + 1 /\ rule = "Init" => tokens # << >>
               /\ tokens # << >> =>
                    tokens[1] = StringToken(SubSeq(input, n + 3, c - 1))

\* A level-1 long string has been returned whose payload holds a closing
\* sequence of another level.
C1_Witness ==
    LET n == OpenerLevel(1)
        c == FirstCloser(n + 3, n)
    IN  /\ n = 1
        /\ c > 0
        /\ tokens # << >>
        /\ tokens[1].kind = "String"
        /\ \E i \in (n + 3)..(c - 1) : \E k \in {0, 2} :
              CloserAt(i, k) /\ i + k + 1 <= c

HiPayload == Str(<< "h", "i", "]", "=", "=" >>)

\* C2, as stated: once the lexer is through `[=[hi]==]==]` it has returned
\* the single token String("hi]==").
C2_AsStated ==
    input = TextLongString /\ last \in {"eof", "error"} =>
        tokens = << StringToken(HiPayload) >>

\* C2, amended: `[=[hi]==]=]`, whose last closing sequence has the one `=` of
\* the opener, yields the single token String("hi]==") and then the end of
\* the input; `[=[hi]==]==]` holds no closing sequence of level 1 and yields
\* no token.
C2_LongStringExample ==
    /\ input = TextLongStringClosed =>
          /\ last \in {"none", "token", "eof"}
          /\ tokens \in {<< >>, << StringToken(HiPayload) >>}
          /\ last \in {"token", "eof"} => tokens = << StringToken(HiPayload) >>
    /\ input = TextLongString => tokens = << >> /\ last # "token"

C2_Witness ==
    /\ input = TextLongStringClosed
    /\ last = "eof"
    /\ tokens = << StringToken(HiPayload) >>

\* C3: a text that starts with "--" and a long-bracket opener of level n
\* yields no token up to and including the first closing sequence of level n;
\* right after it the scanner is in rule set Init with an empty match, no
\* call having returned a token or an error; `--[[ comment ]]x` yields
\* exactly Name("x").
C3_LongCommentEmitsNothing ==
    LET n == OpenerLevel(3)
        c == FirstCloser(n + 5, n)
    IN  /\ LitAt(<< DASH, DASH >>, 0) /\ n >= 0 =>
             IF c = 0
             THEN tokens = << >>
             ELSE /\ pos <= c + n + 1 => tokens = << >> /\ last \in {"none", "eof"}
                  /\ pos = c + n + 1 => rule = "Init" /\ match_start = pos
        /\ input = TextLongComment =>
             /\ tokens \in {<< >>, << Token("Name", Str(<< "x" >>), 0) >>}
             /\ last \in {"none", "token", "eof"}
             /\ last \in {"token", "eof"} =>
                    tokens = << Token("Name", Str(<< "x" >>), 0) >>

C3_Witness ==
    /\ input = TextLongComment
    /\ last = "eof"
    /\ tokens = << Token("Name", Str(<< "x" >>), 0) >>

----------------------------------------------------------------------------
(* Operators: C4 *)

\* Texts of up to MaxOpLen characters out of . < > = / ~ : +
MaxOpLen == 4
OpChars == {46, 60, 62, 61, 47, 126, 58, 43}
OpTexts == SeqsUpTo(OpChars, MaxOpLen)

InitOps == InitWith(Scenarios \cup OpTexts)
SpecOps == InitOps /\ [][Next]_vars

\* The operators that are prefixes of one another, and `+`.
PrefixOperators ==
    { << << 46 >>, "Dot" >>,                \* .
      << << 46, 46 >>, "Concat" >>,         \* ..
      << << 46, 46, 46 >>, "Dots" >>,       \* ...
      << << 60 >>, "LessThan" >>,           \* <
      << << 60, 61 >>, "LessEqual" >>,      \* <=
      << << 60, 60 >>, "ShiftLeft" >>,      \* <<
      << << 62 >>, "GreaterThan" >>,        \* >
      << << 62, 61 >>, "GreaterEqual" >>,   \* >=
      << << 62, 62 >>, "ShiftRight" >>,     \* >>
      << << 47 >>, "Div" >>,                \* /
      << << 47, 47 >>, "IDiv" >>,           \* //
      << << 61 >>, "Assign" >>,             \* =
      << << 61, 61 >>, "Equal" >>,          \* ==
      << << 126 >>, "BitNotXor" >>,         \* ~
      << << 126, 61 >>, "NotEqual" >>,      \* ~=
      << << 58 >>, "Colon" >>,              \* :
      << << 58, 58 >>, "DoubleColon" >>,    \* ::
      << << 43 >>, "Add" >> }               \* +

\* The longest of these operators present at offset p.
LongestOperator(p) ==
    CHOOSE o \in PrefixOperators :
        /\ LitAt(o[1], p)
        /\ \A o2 \in PrefixOperators : LitAt(o2[1], p) => Len(o2[1]) <= Len(o[1])

\* The tokens of the text from offset p on, the longest operator first.
RECURSIVE GreedyOperators(_)
GreedyOperators(p) ==
    IF p >= Len(input) THEN << >>
    ELSE << Simple(LongestOperator(p)[2]) >>
             \o GreedyOperators(p + Len(LongestOperator(p)[1]))

\* C4: on a text made of the characters . < > = / ~ : + every call returns a
\* token or the end of the input, and the tokens returned so far followed by
\* the longest-operator-first tokens of the unread text are the
\* longest-operator-first tokens of the whole text; `+` yields Add and `+=`
\* yields Add, Assign.
C4_OperatorsLongestMatch ==
    /\ (\A i \in 1..Len(input) : input[i] \in OpChars) =>
          /\ last \in {"none", "token", "eof"}
          /\ rule = "Init"
          /\ tokens \o GreedyOperators(pos) = GreedyOperators(0)
    /\ input = TextAdd /\ last = "eof" => tokens = << Simple("Add") >>
    /\ input = TextAddAssign /\ last = "eof" =>
          tokens = << Simple("Add"), Simple("Assign") >>

\* `....` has been lexed to its end as Dots, Dot.
C4_Witness ==
    /\ input = << 46, 46, 46, 46 >>
    /\ last = "eof"
    /\ tokens = << Simple("Dots"), Simple("Dot") >>

----------------------------------------------------------------------------
(* Identifiers and keywords: C5 *)

\* Texts of up to MaxIdentLen characters out of d o i f n r _ 1 and space.
MaxIdentLen == 4
IdentChars == {100, 111, 105, 102, 110, 114, 95, 49, 32}
IdentTexts == SeqsUpTo(IdentChars, MaxIdentLen)

InitIdent == InitWith(Scenarios \cup IdentTexts)
SpecIdent == InitIdent /\ [][Next]_vars

\* The keyword rules of the rule file ("and" = Token::And, ...).
FirstKeyword == 33
Keywords == { FixedTokens[i] : i \in FirstKeyword..NFixed }

\* The offset just past the identifier that starts at offset p.
IdentEnd(p) ==
    CHOOSE q \in (p + 1)..Len(input) :
        /\ \A i \in (p + 1)..(q - 1) : IsVarSubseq(At(i))
        /\ ~ IsVarSubseq(At(q))

IdentToken(spelling) ==
    IF \E k \in Keywords : k[1] = spelling
    THEN Simple((CHOOSE k \in Keywords : k[1] = spelling)[2])
    ELSE Token("Name", spelling, 0)

\* C5: there are 22 keywords; a call that starts in Init at a letter or an
\* underscore reads the whole run of letters, digits and underscores and
\* returns the keyword token when the run is spelled exactly as a keyword,
\* Name with the run's spelling otherwise; `local x = 10` yields Local,
\* Name("x"), Assign, Integer(10).
C5_KeywordIffWholeSpelling ==
    /\ [](Cardinality(Keywords) = 22)
    /\ [][ Active /\ rule = "Init" /\ IsVarInit(At(pos)) =>
             /\ pos' = IdentEnd(pos)
             /\ rule' = "Init"
             /\ last' = "token"
             /\ tokens' = Append(tokens,
                              IdentToken(SubSeq(input, pos + 1, IdentEnd(pos))))
         ]_vars
    /\ [](input = TextLocal /\ last = "eof" =>
             tokens = << Simple("Local"), Token("Name", << 120 >>, 0),
                         Simple("Assign"), Token("Integer", << >>, 10) >>)

\* `dof`, of which the keyword `do` is a proper prefix, has been returned as
\* a Name.
C5_Witness ==
    /\ input = << 100, 111, 102 >>
    /\ tokens = << Token("Name", << 100, 111, 102 >>, 0) >>

----------------------------------------------------------------------------
(* Whitespace: C6 *)

\* Texts of up to MaxWsLen characters out of space, tab, newline and
\* carriage return.
MaxWsLen == 5
WsTexts == SeqsUpTo({SPACE, TAB, NL, CR}, MaxWsLen)

InitWs == InitWith(Scenarios \cup WsTexts)
SpecWs == InitWs /\ [][Next]_vars
\* The scanner goes on reading whitespace while there is some, and the caller
\* keeps calling next() until it returns None or an error.
FairSpecWs == SpecWs /\ WF_vars(InitWhitespace) /\ WF_vars(InitEof)

\* The text is made of spaces, tabs, newlines and CRLF pairs only.
WhitespaceOnly ==
    \A i \in 1..Len(input) :
        \/ input[i] \in {SPACE, TAB}
        \/ input[i] = NL
        \/ input[i] = CR /\ i < Len(input) /\ input[i + 1] = NL

\* C6: on a text made of spaces, tabs, newlines and CRLF pairs only, no call
\* returns a token or an error, and the end of the input is eventually
\* returned.
C6_WhitespaceOnlyReachesEof ==
    /\ [](WhitespaceOnly =>
             /\ tokens = << >>
             /\ last \in {"none", "eof"}
             /\ err_calls = 0)
    /\ (WhitespaceOnly ~> (last = "eof" /\ pos = Len(input) /\ tokens = << >>))

\* The end of space, CR, LF, tab has been returned.
C6_Witness ==
    /\ input = << SPACE, CR, NL, TAB >>
    /\ last = "eof"
    /\ tokens = << >>

----------------------------------------------------------------------------
(* Unicode escapes: C7 *)

\* The short strings "\u{H}" and "a\u{H}" with H of 1 .. MaxHexLen characters
\* out of 0 1 8 D f.
MaxHexLen == 5
HexChars == {48, 49, 56, 68, 102}
UnicodeTexts ==
    { << DQUOTE >> \o pre \o << BACKSLASH, CH_u, LBRACE >> \o h
                   \o << RBRACE, DQUOTE >> :
        pre \in {<< >>, << CH_a >>},
        h \in SeqsUpTo(HexChars, MaxHexLen) \ {<< >>} }

InitUnicode == InitWith(Scenarios \cup UnicodeTexts)
SpecUnicode == InitUnicode /\ [][Next]_vars

\* The index of the backslash of such a text, and whether the input is one.
EscapeIndex == IF Len(input) >= 2 /\ input[2] = BACKSLASH THEN 2 ELSE 3

IsUnicodeText ==
    LET e == EscapeIndex
        n == Len(input)
    IN  /\ n >= e + 5
        /\ input[1] = DQUOTE
        /\ e = 3 => input[2] = CH_a
        /\ input[e] = BACKSLASH
        /\ input[e + 1] = CH_u
        /\ input[e + 2] = LBRACE
        /\ \A i \in (e + 3)..(n - 2) : IsHexDigit(input[i])
        /\ input[n - 1] = RBRACE
        /\ input[n] = DQUOTE

\* The number a hexadecimal numeral spells; for a numeral that spells more
\* than 10FFFF, some number above 10FFFF.
HexDigitOf(c) ==
    CASE c \in 48..57 -> c - 48
      [] c \in 65..70 -> c - 55
      [] c \in 97..102 -> c - 87

RECURSIVE HexSpelled(_)
HexSpelled(h) ==
    IF h = << >> THEN 0
    ELSE LET front == HexSpelled(SubSeq(h, 1, Len(h) - 1))
         IN  IF front > 1114111 THEN front
             ELSE front * 16 + HexDigitOf(h[Len(h)])

\* The code point a byte sequence is the UTF-8 encoding of, -1 when it is
\* none's.
DecodeUtf8(b) ==
    LET cont(i) == b[i] \in 128..191
        low(i) == b[i] - 128
        v2 == (b[1] - 192) * 64 + low(2)
        v3 == (b[1] - 224) * 4096 + low(2) * 64 + low(3)
        v4 == (b[1] - 240) * 262144 + low(2) * 4096 + low(3) * 64 + low(4)
    IN  IF Len(b) = 1 /\ b[1] \in 0..127 THEN b[1]
        ELSE IF Len(b) = 2 /\ b[1] \in 192..223 /\ cont(2) /\ v2 >= 128 THEN v2
        ELSE IF Len(b) = 3 /\ b[1] \in 224..239 /\ cont(2) /\ cont(3) /\ v3 >= 2048
        THEN v3
        ELSE IF /\ Len(b) = 4 /\ b[1] \in 240..247
                /\ cont(2) /\ cont(3) /\ cont(4) /\ v4 >= 65536
        THEN v4
        ELSE -1

\* C7: in the short string "\u{H}" or "a\u{H}", with H spelling a Unicode
\* scalar value v in hexadecimal digits of either case, the string buffer is
\* untouched while the escape is read, the `}` appends bytes that decode as
\* UTF-8 to v, and the String returned holds the same bytes.
C7_UnicodeEscapeRoundTrip ==
    LET e == EscapeIndex
        n == Len(input)
        v == HexSpelled(SubSeq(input, e + 3, n - 2))
        pre == SubSeq(input, 2, e - 1)
        appended(buf) == SubSeq(buf, Len(pre) + 1, Len(buf))
    IN  IsUnicodeText /\ v <= 1114111 /\ v \notin 55296..57343 =>
          /\ last \in {"none", "token", "eof"}
          /\ pos >= e - 1 /\ pos <= n - 2 => string_buf = pre
          /\ pos = n - 1 =>
                /\ rule = "String"
                /\ SubSeq(string_buf, 1, Len(pre)) = pre
                /\ DecodeUtf8(appended(string_buf)) = v
          /\ pos = n =>
                /\ Len(tokens) = 1
                /\ tokens[1].kind = "String"
                /\ SubSeq(tokens[1].bytes, 1, Len(pre)) = pre
                /\ DecodeUtf8(appended(tokens[1].bytes)) = v

\* "a\u{1Df00}", upper and lower case in one numeral and four bytes of
\* UTF-8, has been returned.
C7_Witness ==
    /\ input = << DQUOTE, CH_a, BACKSLASH, CH_u, LBRACE, 49, 68, 102, 48, 48,
                  RBRACE, DQUOTE >>
    /\ last = "eof"
    /\ Len(tokens) = 1
    /\ Len(tokens[1].bytes) = 5

----------------------------------------------------------------------------
(* The \z escape: C8 *)

\* The short strings made of an optional `a`, `\z`, up to MaxSkipLen
\* characters of whitespace, and then nothing, `a` or `\n`.
MaxSkipLen == 3
SkipPrefixes == {<< >>, << CH_a >>}
SkipRuns ==
    { w \in SeqsUpTo({SPACE, TAB, NL, CR}, MaxSkipLen) :
        \A i \in 1..Len(w) : w[i] = CR => i < Len(w) /\ w[i + 1] = NL }
SkipTails == {<< >>, << CH_a >>, << BACKSLASH, 110 >>}
SkipText(pre, w, tail) ==
    << DQUOTE >> \o pre \o << BACKSLASH, CH_z >> \o w \o tail \o << DQUOTE >>
SkipZTexts ==
    { SkipText(pre, w, tail) :
        pre \in SkipPrefixes, w \in SkipRuns, tail \in SkipTails }

InitSkipZ == InitWith(Scenarios \cup SkipZTexts)
SpecSkipZ == InitSkipZ /\ [][Next]_vars

\* The bytes the text after the whitespace stands for.
TailBytes(tail) == IF tail = << BACKSLASH, 110 >> THEN << NL >> ELSE tail

\* C8: in such a short string the scanner is never found between `\z` and
\* the end of the whitespace, the buffer right after the whitespace holds
\* what it held before `\z`, and the String returned holds the bytes of the
\* text before `\z` and of the text after the whitespace, nothing else;
\* "\z   \n" yields the String of the single newline byte.
C8_SkipZContributesNothing ==
    /\ Len(input) >= 4 /\ input[1] = DQUOTE /\ CH_z \in {input[3], input[4]} =>
          \A pre \in SkipPrefixes, w \in SkipRuns, tail \in SkipTails :
              input = SkipText(pre, w, tail) =>
                  LET z == 1 + Len(pre)
                  IN  /\ last \in {"none", "token", "eof"}
                      /\ pos > z => pos >= z + 2 + Len(w)
                      /\ pos = z + 2 + Len(w) =>
                            rule = "String" /\ string_buf = pre
                      /\ last \in {"token", "eof"} =>
                            tokens = << StringToken(pre \o TailBytes(tail)) >>
    /\ input = TextSkipZ /\ last = "eof" => tokens = << StringToken(<< NL >>) >>

\* "a\z", CR, LF, space, "\n" has been returned as the String of `a` and a
\* newline.
C8_Witness ==
    /\ input = SkipText(<< CH_a >>, << CR, NL, SPACE >>, << BACKSLASH, 110 >>)
    /\ last = "eof"
    /\ tokens = << StringToken(<< CH_a, NL >>) >>

----------------------------------------------------------------------------
(* The iteration contract: C9, C10 *)

\* C9, as stated: every call of next() returns a token, the end of the input
\* or an error.
C9_EveryCallReturns == last \in {"none", "token", "eof", "error"}

\* C10: once a call has returned the end of the input, every later call
\* returns it again, and none returns a token or an error.
C10_EofIsIdempotent ==
    [][ last = "eof" =>
          /\ last' = "eof"
          /\ tokens' = tokens
          /\ err_calls' = err_calls
          /\ pos' = pos
      ]_vars

\* The end of the input has been returned twice, after a token.
C10_Witness ==
    /\ last = "eof"
    /\ eof_calls > 1
    /\ tokens # << >>

----------------------------------------------------------------------------
(* Errors: C11, C13, C14, C15 *)

\* C11, as stated: once a call has returned an error, no later call returns
\* a token.
C11_ErrorsAreTerminal == err_calls > 0 => last # "token"

\* The characters that, after a backslash, start an escape of a short string:
\* a b f n r t v \ " ' newline, z, x, u and the digits.
EscapeStarts ==
    {97, 98, 102, 110, 114, 116, 118, 92, 34, 39, 10, 122, 120, 117} \cup 48..57

\* The text is a double-quoted short string that starts with a backslash and
\* a character that starts no escape.
InvalidEscapeText ==
    /\ Len(input) >= 3
    /\ input[1] = DQUOTE
    /\ input[2] = BACKSLASH
    /\ input[3] \notin EscapeStarts

\* C13, as stated: in a short string that starts with a backslash and a
\* character that starts no escape, nothing is appended to the string buffer,
\* no token is returned, and the first call returns the invalid-escape error.
C13_InvalidEscapeIsError ==
    InvalidEscapeText =>
        /\ string_buf = << >>
        /\ tokens = << >>
        /\ last # "none" => last = "error" /\ last_error = "InvalidEscape"

\* The text is a double-quoted short string of some `a`s and then a raw
\* newline; RawNewline is the offset of that newline.
RawNewline ==
    CHOOSE k \in 1..Len(input) :
        /\ k = Len(input) \/ At(k) = NL
        /\ \A j \in 1..(k - 1) : At(j) # NL

RawNewlineText ==
    /\ Len(input) >= 2
    /\ input[1] = DQUOTE
    /\ RawNewline < Len(input)
    /\ \A j \in 1..(RawNewline - 1) : At(j) = CH_a

\* C14, as stated: in a short string whose first line is `"`, some `a`s and a
\* raw newline, the newline is never appended to the string buffer, no String
\* is returned, and the first call returns the unfinished-short-string error.
C14_RawNewlineIsError ==
    RawNewlineText =>
        /\ \A i \in 1..Len(string_buf) : string_buf[i] # NL
        /\ tokens = << >>
        /\ last # "none" =>
              last = "error" /\ last_error = "UnfinishedShortString"

\* The text starts with "--" and no long-bracket opener, and holds a newline;
\* CommentNewline is the offset of the first newline after the "--".
CommentNewline ==
    CHOOSE k \in 2..Len(input) :
        /\ k = Len(input) \/ At(k) = NL
        /\ \A j \in 2..(k - 1) : At(j) # NL

LineCommentText ==
    /\ LitAt(<< DASH, DASH >>, 0)
    /\ ~ (At(2) = LBRACKET /\ At(3) \in {LBRACKET, EQUALS})
    /\ CommentNewline < Len(input)

\* C15, as stated: in a text that starts with a line comment, no token is
\* returned up to the first newline after the "--", and once that newline is
\* read the scanner is in rule set Init.
C15_LineCommentEndsAtNewline ==
    LineCommentText =>
        /\ pos <= CommentNewline + 1 => tokens = << >>
        /\ pos = CommentNewline + 1 => rule = "Init"

----------------------------------------------------------------------------
(* The reference lexer on short strings: C12 *)

\* The end of the run of hexadecimal digits, and of whitespace characters,
\* that starts at offset p.
RECURSIVE RefHexEnd(_)
RefHexEnd(p) == IF IsHexDigit(At(p)) THEN RefHexEnd(p + 1) ELSE p

RECURSIVE RefSpaceEnd(_)
RefSpaceEnd(p) == IF At(p) \in {SPACE, TAB, NL, CR} THEN RefSpaceEnd(p + 1) ELSE p

\* The number the hexadecimal digits at offsets p .. q-1 spell; for a numeral
\* that spells more than 10FFFF, some number above 10FFFF.
RECURSIVE RefHexValue(_, _)
RefHexValue(p, q) ==
    IF p >= q THEN 0
    ELSE LET front == RefHexValue(p, q - 1)
         IN  IF front > 1114111 THEN front
             ELSE front * 16 + FromHexDigit(At(q - 1))

RefOk(bytes) == [kind |-> "token", tok |-> Token("String", bytes, 0)]
RefErr(e) == [kind |-> "error", err |-> e]

\* The reference lexer's short string from offset p on, buf being the bytes
\* read so far and quote the opening quote: the String token or the error of
\* section 4.1.
RECURSIVE ReadShortString(_, _, _)
ReadShortString(p, buf, quote) ==
    LET c == At(p)
        d == At(p + 1)
        digits == IF ~ IsDigit(At(p + 2)) THEN 1
                  ELSE IF ~ IsDigit(At(p + 3)) THEN 2 ELSE 3
        decimal == DecValue(p + 1, p + 1 + digits)
        hexEnd == RefHexEnd(p + 3)
        codepoint == RefHexValue(p + 3, hexEnd)
    IN  IF c = -1 \/ c = NL THEN RefErr("UnfinishedShortString")
        ELSE IF c = quote THEN RefOk(buf)
        ELSE IF c # BACKSLASH
        THEN ReadShortString(p + 1, buf \o EncodeUtf8(c), quote)
        ELSE IF d = -1 THEN RefErr("UnfinishedShortString")
        ELSE IF IsEscapeChar(d)
        THEN ReadShortString(p + 2, Append(buf, EscapeByte(d)), quote)
        ELSE IF d = CH_z THEN ReadShortString(RefSpaceEnd(p + 2), buf, quote)
        ELSE IF IsDigit(d)
        THEN (IF decimal > 255 THEN RefErr("EscapeDecimalTooLarge")
              ELSE ReadShortString(p + 1 + digits, Append(buf, decimal), quote))
        ELSE IF d = CH_x
        THEN (IF IsHexDigit(At(p + 2)) /\ IsHexDigit(At(p + 3))
              THEN ReadShortString(p + 4,
                       Append(buf, FromHexDigit(At(p + 2)) * 16
                                       + FromHexDigit(At(p + 3))),
                       quote)
              ELSE RefErr("HexDigitExpected"))
        ELSE IF d = CH_u
        THEN (IF At(p + 2) # LBRACE THEN RefErr("EscapeUnicodeStart")
              ELSE IF At(hexEnd) # RBRACE THEN RefErr("EscapeUnicodeEnd")
              ELSE IF codepoint > 1114111 \/ codepoint \in 55296..57343
              THEN RefErr("EscapeUnicodeInvalid")
              ELSE ReadShortString(hexEnd + 1, buf \o EncodeUtf8(codepoint), quote))
        ELSE RefErr("InvalidEscape")

\* C12, as stated, on the texts that start with a short string: the first
\* call returns what the reference lexer's first call returns, the same
\* String token or the same error.
C12_SameAsReference ==
    LET ref == ReadShortString(1, << >>, input[1])
    IN  Len(input) >= 1 /\ input[1] \in {DQUOTE, SQUOTE} =>
          /\ last # "panic"
          /\ Len(tokens) + err_calls = 1 /\ last = "token" =>
                ref.kind = "token" /\ tokens[1] = ref.tok
          /\ Len(tokens) + err_calls = 1 /\ last = "error" =>
                ref.kind = "error" /\ last_error = ref.err

----------------------------------------------------------------------------
(* Decimal and Unicode escapes out of range: C16, C17 *)

\* The text is a double-quoted short string that starts with a decimal
\* escape; the number of its digits (at most 3) and its value.
DecimalEscapeText ==
    /\ Len(input) >= 3
    /\ input[1] = DQUOTE
    /\ input[2] = BACKSLASH
    /\ input[3] \in 48..57

DecimalEscapeDigits ==
    IF At(3) \notin 48..57 THEN 1 ELSE IF At(4) \notin 48..57 THEN 2 ELSE 3

DecimalEscapeValue ==
    IF DecimalEscapeDigits = 1 THEN input[3] - 48
    ELSE IF DecimalEscapeDigits = 2 THEN (input[3] - 48) * 10 + (input[4] - 48)
    ELSE (input[3] - 48) * 100 + (input[4] - 48) * 10 + (input[5] - 48)

\* C16, as stated: no call panics on a decimal escape; once the scanner has
\* read a decimal escape at the start of a short string, the string buffer
\* holds the one byte of its value when the value is at most 255, and when
\* it is more the buffer is empty and the call has returned the
\* decimal-escape-too-large error.
C16_DecimalEscapeRange ==
    DecimalEscapeText =>
        /\ last # "panic"
        /\ pos = 2 + DecimalEscapeDigits =>
              IF DecimalEscapeValue <= 255
              THEN string_buf = << DecimalEscapeValue >>
              ELSE /\ string_buf = << >>
                   /\ last = "error"
                   /\ last_error = "EscapeDecimalTooLarge"

\* C17, as stated: no call panics on a \u{...} escape; once the scanner has
\* read the `}` of "\u{D800}" nothing has been appended to the string buffer
\* and the call has returned the escape-unicode-invalid error.
C17_InvalidUnicodeIsError ==
    input = TextSurrogate =>
        /\ last # "panic"
        /\ string_buf = << >>
        /\ tokens = << >>
        /\ pos >= 9 => last = "error" /\ last_error = "EscapeUnicodeInvalid"

----------------------------------------------------------------------------
(* A closing sequence of another level: C18 *)

\* The scanner is about to read the `]` that ends a closing sequence whose
\* number of `=` differs from the opener's.
AtMismatchedClose ==
    /\ Active
    /\ rule = "LongStringBracketRight"
    /\ At(pos) = RBRACKET
    /\ long_string_opening_eqs # long_string_closing_eqs

\* C18, as stated: that step resets the closing counter to 0, returns no
\* token and takes the scanner back to the body rule set LongString.
C18_MismatchGoesToBody ==
    [][ AtMismatchedClose =>
          /\ long_string_closing_eqs' = 0
          /\ rule' = "LongString"
          /\ tokens' = tokens
      ]_vars

\* C18, amended: that step resets the closing counter to 0, returns no token
\* and leaves the scanner in the closing rule set LongStringBracketRight, the
\* `]` it read being the possible start of the next closing sequence: the `]`
\* and `=` before it are body, and `[[a]=]]` yields the String `a]=`.
C18_MismatchStaysInClosing ==
    /\ [][ AtMismatchedClose =>
             /\ long_string_closing_eqs' = 0
             /\ rule' = "LongStringBracketRight"
             /\ pos' = pos + 1
             /\ match_start' = match_start
             /\ tokens' = tokens
             /\ last' = last
         ]_vars
    /\ [](input = << LBRACKET, LBRACKET, CH_a, RBRACKET, EQUALS, RBRACKET, RBRACKET >>
            /\ last = "eof" =>
                tokens = << StringToken(<< CH_a, RBRACKET, EQUALS >>) >>)

\* `[[a]=]]` has been returned as the String `a]=`.
C18_Witness ==
    /\ input = << LBRACKET, LBRACKET, CH_a, RBRACKET, EQUALS, RBRACKET, RBRACKET >>
    /\ last = "eof"
    /\ tokens = << StringToken(<< CH_a, RBRACKET, EQUALS >>) >>

----------------------------------------------------------------------------
(* The end of the input inside a construct: C19 *)

\* The text is an opening double quote and characters that neither close the
\* string nor start an escape nor end the line.
UnterminatedShortText ==
    /\ Len(input) >= 1
    /\ input[1] = DQUOTE
    /\ \A i \in 2..Len(input) : input[i] \notin {DQUOTE, BACKSLASH, NL}

\* The text is a level-0 long-bracket opener and characters other than `]`.
UnterminatedLongText ==
    /\ LitAt(<< LBRACKET, LBRACKET >>, 0)
    /\ \A i \in 3..Len(input) : input[i] # RBRACKET

\* C19, as stated: on a short string and on a long string that the end of
\* the input cuts short, no token is returned, and the first call returns the
\* unfinished-short-string error, the unfinished-long-string error
\* respectively.
C19_EofInsideConstructIsError ==
    /\ UnterminatedShortText =>
          /\ tokens = << >>
          /\ err_calls + eof_calls = 1 =>
                last = "error" /\ last_error = "UnfinishedShortString"
    /\ UnterminatedLongText =>
          /\ tokens = << >>
          /\ err_calls + eof_calls = 1 =>
                last = "error" /\ last_error = "UnfinishedLongString"

----------------------------------------------------------------------------
(* Numerals: C20 *)

\* The text is one hexadecimal numeral with an integer part of one or more
\* digits, a radix point and a fraction: `0x`, hex digits, `.`, hex digits.
HexFractionText ==
    /\ LitAt(<< CH_0, CH_x >>, 0)
    /\ \E d \in 3..(Len(input) - 2) :
          /\ At(d) = DOT
          /\ \A i \in 2..(d - 1) : IsHexDigit(At(i))
          /\ \A i \in (d + 1)..(Len(input) - 1) : IsHexDigit(At(i))

\* C20, as stated: such a numeral is read in one step, whole, and yields one
\* token or one error.
C20_NumeralIsOneLexeme ==
    HexFractionText =>
        /\ pos \in {0, Len(input)}
        /\ Len(tokens) + err_calls <= 1

----------------------------------------------------------------------------
(* A line comment that the end of the input cuts short: C21 *)

\* The offset of the "--" of the comment: the text is a line comment alone, or
\* the name `x`, a space and a line comment.
EofCommentStart == IF LitAt(<< DASH, DASH >>, 0) THEN 0 ELSE 2

\* The text ends in a line comment: a "--" that no long-bracket opener
\* follows, and no newline up to the end of the input.
EofCommentText ==
    /\ LitAt(<< DASH, DASH >>, EofCommentStart)
    /\ EofCommentStart = 2 => At(0) = CH_x /\ At(1) = SPACE
    /\ ~ (/\ At(EofCommentStart + 2) = LBRACKET
          /\ At(EofCommentStart + 3) \in {LBRACKET, EQUALS})
    /\ \A i \in 1..Len(input) : input[i] # NL

\* C21, as stated: on a text that ends in a line comment with no newline, no
\* call returns an error, and the end of the input is returned after the
\* tokens that precede the comment and no others.
C21_LineCommentAtEofIsCleanEnd ==
    EofCommentText =>
        /\ err_calls = 0
        /\ last # "panic"
        /\ last = "eof" =>
              tokens = IF EofCommentStart = 0 THEN << >>
                       ELSE << Token("Name", << CH_x >>, 0) >>

----------------------------------------------------------------------------
(* The comment flag of a long bracket: C22 *)

\* Texts that are 1 .. MaxRegions closed long brackets one after the other,
\* each one a string or after "--" a comment, of level 0 or 1, with an empty
\* or a one-character body.
MaxRegions == 3

Closer(n) == << RBRACKET >> \o [i \in 1..n |-> EQUALS] \o << RBRACKET >>

Regions ==
    { pre \o Opener(n) \o body \o Closer(n) :
        pre \in {<< >>, << DASH, DASH >>},
        n \in 0..1,
        body \in {<< >>, << CH_a >>} }

RECURSIVE RegionTextsOf(_)
RegionTextsOf(k) ==
    IF k = 0 THEN {<< >>}
    ELSE { r \o t : r \in Regions, t \in RegionTextsOf(k - 1) }

RegionTexts == UNION { RegionTextsOf(k) : k \in 1..MaxRegions }

InitRegions == InitWith(Scenarios \cup RegionTexts)
SpecRegions == InitRegions /\ [][Next]_vars

\* The scanner is in a long-bracket state: the opening delimiter, the body or
\* the closing delimiter.
InLongBracket ==
    rule \in {"LongStringBracketLeft", "LongString", "LongStringBracketRight"}

\* The text from index i on is closed long brackets one after the other.
RECURSIVE IsRegionsFrom(_)
IsRegionsFrom(i) ==
    IF i > Len(input) THEN TRUE
    ELSE LET o == IF LitAt(<< DASH, DASH >>, i - 1) THEN i + 2 ELSE i
             n == OpenerLevel(o)
             c == IF n < 0 THEN 0 ELSE FirstCloser(o + n + 2, n)
         IN  c > 0 /\ IsRegionsFrom(c + n + 2)

\* The String tokens of the long brackets from index i on that no "--"
\* precedes, in the order of the text.
RECURSIVE RegionStrings(_)
RegionStrings(i) ==
    IF i > Len(input) THEN << >>
    ELSE LET com == LitAt(<< DASH, DASH >>, i - 1)
             o == IF com THEN i + 2 ELSE i
             n == OpenerLevel(o)
             c == FirstCloser(o + n + 2, n)
             rest == RegionStrings(c + n + 2)
         IN  IF com THEN rest
             ELSE << StringToken(SubSeq(input, o + n + 2, c - 1)) >> \o rest

\* The flag and the entry of a long bracket agree, and the tokens of a text of
\* closed long brackets are the Strings of the brackets no "--" precedes.
FlagFollowsEntry ==
    /\ InLongBracket =>
          /\ entered_from \in {"Init", "EnterComment"}
          /\ in_comment <=> entered_from = "EnterComment"
          /\ ~ in_comment <=> entered_from = "Init"
    /\ (Len(input) > 0 /\ IsRegionsFrom(1)) =>
          /\ err_calls = 0
          /\ last # "panic"
          /\ last = "eof" => tokens = RegionStrings(1)

\* The step that closes a long bracket appends one String when the bracket
\* was entered from Init, and nothing when it was entered from EnterComment.
ClosingStepFollowsEntry ==
    (InLongBracket /\ rule' = "Init" /\ last' # "error") =>
        /\ entered_from = "Init" =>
              /\ Len(tokens') = Len(tokens) + 1
              /\ SubSeq(tokens', 1, Len(tokens)) = tokens
              /\ tokens'[Len(tokens')].kind = "String"
        /\ entered_from = "EnterComment" => tokens' = tokens

\* C22: in a long-bracket state the in_comment flag is true exactly when the
\* bracket was entered from "--" (rule set EnterComment) and false exactly
\* when it was entered from a bare `[` in Init, whatever was read before; the
\* step that closes a long bracket returns a String exactly when the bracket
\* was entered from Init, so that no long string is dropped for a flag an
\* earlier long comment left and no long comment returns a String.
C22_FlagFollowsEntry ==
    /\ [] FlagFollowsEntry
    /\ [][ClosingStepFollowsEntry]_vars

\* A long string that follows a long comment has been returned, and the long
\* comment that follows it has returned nothing.
C22_Witness ==
    /\ input = << DASH, DASH >> \o Opener(0) \o << CH_a >> \o Closer(0)
                 \o Opener(1) \o << CH_a >> \o Closer(1)
                 \o << DASH, DASH >> \o Opener(0) \o Closer(0)
    /\ last = "eof"
    /\ tokens = << StringToken(<< CH_a >>) >>

====
